---- MODULE Spec2Model ----
(***************************************************************************)
(* The IPL auction ledger: the players / teams / auctions tables of the    *)
(* multi-auction schema, the stored procedure sell_player with its row     *)
(* locks, and the admin dashboard handlers that read and write the tables. *)
(*                                                                         *)
(* Money is counted in units of a third of the default purse of the        *)
(* schema, so that 1,000,000,000 is DefaultPurse units.                    *)
(***************************************************************************)
EXTENDS Integers, FiniteSets, Sequences, TLC

(***************************************************************************)
(* Bounds of the model.                                                    *)
(***************************************************************************)
MaxPrice == 3
MaxCalls == 2
MaxAdminOps == 2

(***************************************************************************)
(* Identifiers.  NULL is the SQL NULL of a uuid column, NullPrice the SQL  *)
(* NULL of players.current_price.  A listing (auctions row) is named by    *)
(* its player, since auctions.player_id is UNIQUE; a listing id whose row  *)
(* is not present is a uuid that matches no auctions row.                  *)
(***************************************************************************)
NULL == "NULL"
NullPrice == 0 - 1
Events == {"A", "B"}
Players == {"P1", "P2"}
Teams == {"T1", "T2"}
Users == {"U1", "U2"}
Prices == 1..MaxPrice

(* seed data: which auction event each row belongs to, and the base prices *)
PlayerEvent == [p \in Players |-> "A"]
TeamEvent == [t \in Teams |-> IF t = "T2" THEN "B" ELSE "A"]
BasePrice == [p \in Players |-> IF p = "P2" THEN 2 ELSE 1]
DefaultPurse == 3

(* user_profiles: both users are admins of auction event A *)
UserEvent == [u \in Users |-> "A"]
Admin == "U1"

VARIABLES
    players,    \* public.players, one row per player id
    teams,      \* public.teams, one row per team id
    auctions,   \* public.auctions, at most one row per player (UNIQUE player_id)
    pc,         \* per user: where the user's sell_player transaction stands
    args,       \* per user: the arguments of that call
    result,     \* per user: outcome of the user's last finished call
    origin,     \* per user: "panel" if the call came from soldPlayer, "rpc" if direct
    plock,      \* row locks on players taken by SELECT ... FOR UPDATE
    tlock,      \* row locks on teams taken by SELECT ... FOR UPDATE
    cache,      \* per user: the players/teams props last fetched by fetchData
    panel,      \* per user: AuctionPanel state
    stale,      \* per user: TRUE while an onUpdate() refresh is pending
    toast,      \* per user: the last toast the panel showed
    modal,      \* the EditTeamModal an admin of event A has open
    current_auction,  \* the single row of the current_auction table
    legacy,     \* state of the dashboard that sells row by row
    session2,   \* a second session of that dashboard: its auction state
    hist        \* history: counters used to state the properties, and the
                \* teams whose dashboards were sent a change of a players row
                \* written by sell_player

vars == <<players, teams, auctions, pc, args, result, origin, plock, tlock,
          cache, panel, stale, toast, modal, current_auction, legacy, session2,
          hist>>
dbVars == <<players, teams, auctions>>
txVars == <<pc, args, result, origin, plock, tlock>>
uiVars == <<cache, panel, stale, toast>>
legacyVars == <<current_auction, legacy, session2>>
adminVars == <<modal, legacyVars>>

(***************************************************************************)
(* Rows.                                                                   *)
(***************************************************************************)
PlayerRow(p) ==
    [is_sold |-> FALSE, team_id |-> NULL, current_price |-> NullPrice,
     base_price |-> BasePrice[p], auction_event_id |-> PlayerEvent[p]]

TeamRow(t) ==
    [purse_remaining |-> DefaultPurse, total_purse |-> DefaultPurse,
     players_count |-> 0, auction_event_id |-> TeamEvent[t]]

NoAuction ==
    [present |-> FALSE, current_price |-> 0, is_active |-> FALSE,
     winning_team_id |-> NULL, auction_event_id |-> NULL]

IdlePanel ==
    [currentAuction |-> NULL, basePrice |-> 0, currentBid |-> 0, selectedTeamId |-> NULL]

ClosedModal ==
    [op |-> "closed", team |-> NULL, purse |-> 0, count |-> 0, player |-> NULL, price |-> 0]

NoCurrentAuction == [player_id |-> NULL, current_price |-> 0, is_active |-> FALSE]

(* the dashboard's players and teams state as fetchData sets it *)
legacyFetchData ==
    [sold  |-> [p \in Players |-> players[p].is_sold],
     purse |-> [t \in Teams |-> teams[t].purse_remaining],
     count |-> [t \in Teams |-> teams[t].players_count]]

NoArgs == [p_id |-> NULL, t_id |-> NULL, a_id |-> NULL, sell_price |-> 0]

(* what fetchData returns to user u: the rows RLS lets u read *)
fetchData(u) ==
    [sold  |-> [p \in Players |-> players[p].is_sold],
     base  |-> [p \in Players |-> players[p].base_price],
     purse |-> [t \in Teams |-> teams[t].purse_remaining]]

VisiblePlayers(u) == {p \in Players : players[p].auction_event_id = UserEvent[u]}
VisibleTeams(u) == {t \in Teams : teams[t].auction_event_id = UserEvent[u]}

Init ==
    /\ players = [p \in Players |-> PlayerRow(p)]
    /\ teams = [t \in Teams |-> TeamRow(t)]
    /\ auctions = [p \in Players |-> NoAuction]
    /\ pc = [u \in Users |-> "idle"]
    /\ args = [u \in Users |-> NoArgs]
    /\ result = [u \in Users |-> "none"]
    /\ origin = [u \in Users |-> "rpc"]
    /\ plock = [p \in Players |-> NULL]
    /\ tlock = [t \in Teams |-> NULL]
    /\ cache = [u \in Users |-> fetchData(u)]
    /\ panel = [u \in Users |-> IdlePanel]
    /\ stale = [u \in Users |-> FALSE]
    /\ toast = [u \in Users |-> "none"]
    /\ modal = ClosedModal
    /\ current_auction = NoCurrentAuction
    /\ legacy = [step |-> "idle", currentAuctionPlayer |-> NULL, currentBid |-> 0,
                 selectedTeamId |-> NULL, props |-> legacyFetchData]
    /\ session2 = [currentAuctionPlayer |-> NULL, currentBid |-> 0]
    /\ hist = [calls |-> 0, ops |-> 0,
               sales |-> [p \in Players |-> 0],
               waited |-> {},
               maxAttempt |-> 0,
               reclosed |-> {},
               notified |-> {}]

(***************************************************************************)
(* sell_player(p_id, t_id, a_id, sell_price): one database transaction.    *)
(* The function is SECURITY DEFINER and is exposed as an RPC, so any       *)
(* signed-in user may call it with any four arguments.                     *)
(***************************************************************************)

(* `IF already_sold THEN RAISE`: NULL (no such row) does not raise *)
AlreadySold(p) == p \in Players /\ players[p].is_sold

(* `IF current_purse < sell_price THEN RAISE`: NULL does not raise *)
InsufficientPurse(t, price) == t \in Teams /\ teams[t].purse_remaining < price

(* players.team_id and auctions.winning_team_id REFERENCES teams(id) *)
ForeignKeyViolation(p, t, a) ==
    t \notin Teams /\ (p \in Players \/ (a \in Players /\ auctions[a].present))

(* 1. UPDATE PLAYER *)
UpdatePlayer(p, t, price) ==
    [q \in Players |->
        IF q = p
        THEN [players[q] EXCEPT !.is_sold = TRUE, !.team_id = t, !.current_price = price]
        ELSE players[q]]

(* 2. UPDATE TEAM *)
UpdateTeam(t, price) ==
    [x \in Teams |->
        IF x = t
        THEN [teams[x] EXCEPT !.purse_remaining = @ - price, !.players_count = @ + 1]
        ELSE teams[x]]

(* 3. UPDATE AUCTION *)
UpdateAuction(a, t, price) ==
    [b \in Players |->
        IF b = a /\ auctions[b].present
        THEN [auctions[b] EXCEPT !.is_active = FALSE, !.winning_team_id = t,
                                 !.current_price = price]
        ELSE auctions[b]]

(* a transaction end that leaves the row locks of the transaction in place *)
ReleaseNothing(locks, u) == locks

Release(locks, u) == [r \in DOMAIN locks |-> IF locks[r] = u THEN NULL ELSE locks[r]]

(* the players change feed: once the transaction has committed, the new    *)
(* row of player p is sent to the dashboards subscribed with the filter    *)
(* team_id = t; a call that matched no players row changes no row and      *)
(* sends nothing                                                           *)
PostgresChanges(sent, p, t) == IF p \in Players THEN sent \cup {t} ELSE sent

(* a soldPlayer that calls onUpdate() in its finally block *)
AfterRpcRefreshingAlways(u, ok) ==
    IF origin[u] # "panel"
    THEN UNCHANGED uiVars
    ELSE IF ok
         THEN /\ panel' = [panel EXCEPT ![u] = IdlePanel]
              /\ stale' = [stale EXCEPT ![u] = TRUE]
              /\ toast' = [toast EXCEPT ![u] = "sold"]
              /\ cache' = cache
         ELSE /\ toast' = [toast EXCEPT ![u] = "Transaction failed"]
              /\ stale' = [stale EXCEPT ![u] = TRUE]
              /\ UNCHANGED <<cache, panel>>

(* the caller's handler after the RPC returns: soldPlayer's try/catch *)
AfterRpc(u, ok) ==
    IF origin[u] # "panel"
    THEN UNCHANGED uiVars
    ELSE IF ok
         THEN /\ panel' = [panel EXCEPT ![u] = IdlePanel]
              /\ stale' = [stale EXCEPT ![u] = TRUE]
              /\ toast' = [toast EXCEPT ![u] = "sold"]
              /\ cache' = cache
         ELSE /\ toast' = [toast EXCEPT ![u] = "Transaction failed"]
              /\ UNCHANGED <<cache, panel, stale>>

(* a sell_player that marks the player before it checks the purse and     *)
(* swallows the exception instead of rolling back                          *)
RaiseKeepingPlayerUpdate(u, error) ==
    /\ pc' = [pc EXCEPT ![u] = "idle"]
    /\ result' = [result EXCEPT ![u] = error]
    /\ plock' = Release(plock, u)
    /\ tlock' = Release(tlock, u)
    /\ AfterRpc(u, FALSE)
    /\ args' = [args EXCEPT ![u] = NoArgs]
    /\ players' = IF error = "InsufficientPurse"
                  THEN UpdatePlayer(args[u].p_id, args[u].t_id, args[u].sell_price)
                  ELSE players
    /\ UNCHANGED <<teams, auctions, origin, hist>>

(* the transaction aborts: every lock is released, nothing is written *)
Raise(u, error) ==
    /\ pc' = [pc EXCEPT ![u] = "idle"]
    /\ result' = [result EXCEPT ![u] = error]
    /\ plock' = Release(plock, u)
    /\ tlock' = Release(tlock, u)
    /\ AfterRpc(u, FALSE)
    /\ args' = [args EXCEPT ![u] = NoArgs]
    /\ UNCHANGED <<dbVars, origin, hist>>

(* a direct call of the RPC with arbitrary arguments *)
SellPlayerCall(u, p, t, a, price) ==
    /\ pc[u] = "idle"
    /\ UNCHANGED adminVars
    /\ hist.calls < MaxCalls
    /\ pc' = [pc EXCEPT ![u] = "lockPlayer"]
    /\ args' = [args EXCEPT ![u] = [p_id |-> p, t_id |-> t, a_id |-> a, sell_price |-> price]]
    /\ origin' = [origin EXCEPT ![u] = "rpc"]
    /\ result' = [result EXCEPT ![u] = "none"]
    /\ hist' = [hist EXCEPT !.calls = @ + 1, !.waited = @ \ {u}]
    /\ UNCHANGED <<dbVars, plock, tlock, uiVars>>

(* the calls that are left waiting for a row once user u has locked it *)
WaitingForPlayer(u, p) == {v \in Users \ {u} : pc[v] = "lockPlayer" /\ args[v].p_id = p}
WaitingForTeam(u, t) == {v \in Users \ {u} : pc[v] = "lockTeam" /\ args[v].t_id = t}

(* SELECT is_sold ... FOR UPDATE; waits while another transaction holds the row *)
LockPlayer(u) ==
    /\ pc[u] = "lockPlayer"
    /\ UNCHANGED adminVars
    /\ LET p == args[u].p_id IN
        /\ p \in Players => plock[p] = NULL
        /\ IF AlreadySold(p)
           THEN Raise(u, "AlreadySold")
           ELSE /\ pc' = [pc EXCEPT ![u] = "lockTeam"]
                /\ plock' = [q \in Players |-> IF q = p THEN u ELSE plock[q]]
                /\ hist' = [hist EXCEPT !.waited = @ \cup WaitingForPlayer(u, p)]
                /\ UNCHANGED <<dbVars, args, result, origin, tlock, uiVars>>

(* the purse read by a plain SELECT, without FOR UPDATE *)
LockTeamWithoutRowLock(u) ==
    /\ pc[u] = "lockTeam"
    /\ UNCHANGED adminVars
    /\ IF InsufficientPurse(args[u].t_id, args[u].sell_price)
       THEN Raise(u, "InsufficientPurse")
       ELSE /\ pc' = [pc EXCEPT ![u] = "update"]
            /\ UNCHANGED <<dbVars, args, result, origin, plock, tlock, uiVars, hist>>

(* SELECT purse_remaining ... FOR UPDATE *)
LockTeam(u) ==
    /\ pc[u] = "lockTeam"
    /\ UNCHANGED adminVars
    /\ LET t == args[u].t_id IN
        /\ t \in Teams => tlock[t] = NULL
        /\ IF InsufficientPurse(t, args[u].sell_price)
           THEN Raise(u, "InsufficientPurse")
           ELSE /\ pc' = [pc EXCEPT ![u] = "update"]
                /\ tlock' = [x \in Teams |-> IF x = t THEN u ELSE tlock[x]]
                /\ hist' = [hist EXCEPT !.waited = @ \cup WaitingForTeam(u, t)]
                /\ UNCHANGED <<dbVars, args, result, origin, plock, uiVars>>

(* the three UPDATEs and the commit *)
Commit(u) ==
    /\ pc[u] = "update"
    /\ UNCHANGED adminVars
    /\ LET p == args[u].p_id
           t == args[u].t_id
           a == args[u].a_id
           price == args[u].sell_price
       IN IF ForeignKeyViolation(p, t, a)
          THEN Raise(u, "ForeignKeyViolation")
          ELSE /\ players' = UpdatePlayer(p, t, price)
               /\ teams' = UpdateTeam(t, price)
               /\ auctions' = UpdateAuction(a, t, price)
               /\ pc' = [pc EXCEPT ![u] = "idle"]
               /\ result' = [result EXCEPT ![u] = "ok"]
               /\ plock' = Release(plock, u)
               /\ tlock' = Release(tlock, u)
               /\ hist' = [hist EXCEPT
                             !.sales = [q \in Players |-> IF q = p THEN @[q] + 1 ELSE @[q]],
                             !.notified = PostgresChanges(@, p, t)]
               /\ AfterRpc(u, TRUE)
               /\ args' = [args EXCEPT ![u] = NoArgs]
               /\ UNCHANGED origin

(***************************************************************************)
(* AuctionPanel: the admin's auction tab.  Its players and teams props are *)
(* the rows AdminDashboard.fetchData last read (cache).                    *)
(***************************************************************************)

unsoldPlayers(u) == {p \in VisiblePlayers(u) : ~cache[u].sold[p]}

Max(a, b) == IF a >= b THEN a ELSE b

(* an insert that leaves current_price to the column default *)
NewAuctionWithoutPrice(u, p) ==
    [present |-> TRUE, current_price |-> 0, is_active |-> TRUE,
     winning_team_id |-> NULL, auction_event_id |-> UserEvent[u]]

(* INSERT INTO auctions: the row the panel sends *)
NewAuction(u, p) ==
    [present |-> TRUE, current_price |-> cache[u].base[p], is_active |-> TRUE,
     winning_team_id |-> NULL, auction_event_id |-> UserEvent[u]]

(* a startAuction that upserts: the listing of the player is written even  *)
(* when one exists                                                         *)
startAuctionUpsert(u, p) ==
    /\ pc[u] = "idle"
    /\ UNCHANGED adminVars
    /\ p \in unsoldPlayers(u)
    /\ panel[u].currentAuction = NULL
    /\ plock[p] = NULL
    /\ auctions' = [auctions EXCEPT ![p] = NewAuction(u, p)]
    /\ panel' = [panel EXCEPT ![u].currentAuction = p,
                              ![u].basePrice = cache[u].base[p],
                              ![u].currentBid = cache[u].base[p]]
    /\ toast' = [toast EXCEPT ![u] = "Auction LIVE"]
    /\ UNCHANGED <<players, teams, txVars, cache, stale, hist>>

(* a startAuction whose insert replaces the row of a listing that has been *)
(* closed (ON CONFLICT (player_id) DO UPDATE ... WHERE NOT is_active)      *)
startAuctionReopening(u, p) ==
    /\ pc[u] = "idle"
    /\ UNCHANGED adminVars
    /\ p \in unsoldPlayers(u)
    /\ panel[u].currentAuction = NULL
    /\ plock[p] = NULL
    /\ IF auctions[p].present /\ auctions[p].is_active
       THEN /\ toast' = [toast EXCEPT ![u] = "Auction failed"]
            /\ UNCHANGED <<auctions, panel>>
       ELSE /\ auctions' = [auctions EXCEPT ![p] = NewAuction(u, p)]
            /\ panel' = [panel EXCEPT ![u].currentAuction = p,
                                      ![u].basePrice = cache[u].base[p],
                                      ![u].currentBid = cache[u].base[p]]
            /\ toast' = [toast EXCEPT ![u] = "Auction LIVE"]
    /\ UNCHANGED <<players, teams, txVars, cache, stale, hist>>

(* INSERT INTO auctions; a second row for the same player_id violates the  *)
(* UNIQUE constraint and the insert fails                                  *)
startAuction(u, p) ==
    /\ pc[u] = "idle"
    /\ UNCHANGED adminVars
    /\ p \in unsoldPlayers(u)
    /\ panel[u].currentAuction = NULL
    /\ plock[p] = NULL
    /\ IF auctions[p].present
       THEN /\ toast' = [toast EXCEPT ![u] = "Auction failed"]
            /\ UNCHANGED <<auctions, panel>>
       ELSE /\ auctions' = [auctions EXCEPT ![p] = NewAuction(u, p)]
            /\ panel' = [panel EXCEPT ![u].currentAuction = p,
                                      ![u].basePrice = cache[u].base[p],
                                      ![u].currentBid = cache[u].base[p]]
            /\ toast' = [toast EXCEPT ![u] = "Auction LIVE"]
    /\ UNCHANGED <<players, teams, txVars, cache, stale, hist>>

(* an updateBid without the Math.max *)
updateBidUnclamped(u, amount) ==
    /\ panel[u].currentAuction # NULL
    /\ UNCHANGED adminVars
    /\ panel[u].currentBid + amount <= MaxPrice
    /\ panel' = [panel EXCEPT ![u].currentBid = panel[u].currentBid + amount]
    /\ UNCHANGED <<dbVars, txVars, cache, stale, toast, hist>>

(* setCurrentBid(Math.max(currentBid + amount, currentPlayer.base_price)) *)
updateBid(u, amount) ==
    /\ panel[u].currentAuction # NULL
    /\ UNCHANGED adminVars
    /\ panel[u].currentBid + amount <= MaxPrice
    /\ panel' = [panel EXCEPT ![u].currentBid =
                    Max(panel[u].currentBid + amount, panel[u].basePrice)]
    /\ UNCHANGED <<dbVars, txVars, cache, stale, toast, hist>>

selectTeam(u, t) ==
    /\ panel[u].currentAuction # NULL
    /\ UNCHANGED adminVars
    /\ t \in VisibleTeams(u)
    /\ panel[u].selectedTeamId # t
    /\ panel' = [panel EXCEPT ![u].selectedTeamId = t]
    /\ UNCHANGED <<dbVars, txVars, cache, stale, toast, hist>>

soldPlayer(u) ==
    /\ pc[u] = "idle"
    /\ UNCHANGED adminVars
    /\ hist.calls < MaxCalls
    /\ panel[u].currentAuction # NULL
    /\ panel[u].selectedTeamId # NULL
    /\ IF cache[u].purse[panel[u].selectedTeamId] < panel[u].currentBid
       THEN /\ toast' = [toast EXCEPT ![u] = "insufficient funds"]
            /\ UNCHANGED <<pc, args, origin, result, hist>>
       ELSE /\ pc' = [pc EXCEPT ![u] = "lockPlayer"]
            /\ args' = [args EXCEPT ![u] =
                          [p_id |-> panel[u].currentAuction,
                           t_id |-> panel[u].selectedTeamId,
                           a_id |-> panel[u].currentAuction,
                           sell_price |-> panel[u].currentBid]]
            /\ origin' = [origin EXCEPT ![u] = "panel"]
            /\ result' = [result EXCEPT ![u] = "none"]
            /\ hist' = [hist EXCEPT !.calls = @ + 1, !.waited = @ \ {u}]
            /\ UNCHANGED toast
    /\ UNCHANGED <<dbVars, plock, tlock, cache, panel, stale>>

(* UPDATE auctions SET is_active = false WHERE id = a *)
CloseListing(a) == [auctions EXCEPT ![a].is_active = FALSE]

(* the listings among S that were already inactive when closed again *)
Reclosed(S) == {a \in S : auctions[a].present /\ ~auctions[a].is_active}

(* an unsoldPlayer that flips the flag and forgets the winner *)
unsoldPlayerToggle(u) ==
    /\ pc[u] = "idle"
    /\ UNCHANGED adminVars
    /\ panel[u].currentAuction # NULL
    /\ auctions' = [auctions EXCEPT
                      ![panel[u].currentAuction].is_active = ~@,
                      ![panel[u].currentAuction].winning_team_id = NULL]
    /\ panel' = [panel EXCEPT ![u] = IdlePanel]
    /\ toast' = [toast EXCEPT ![u] = "went unsold"]
    /\ hist' = [hist EXCEPT !.reclosed = @ \cup Reclosed({panel[u].currentAuction})]
    /\ UNCHANGED <<players, teams, txVars, cache, stale>>

unsoldPlayer(u) ==
    /\ pc[u] = "idle"
    /\ UNCHANGED adminVars
    /\ panel[u].currentAuction # NULL
    /\ auctions' = CloseListing(panel[u].currentAuction)
    /\ panel' = [panel EXCEPT ![u] = IdlePanel]
    /\ toast' = [toast EXCEPT ![u] = "went unsold"]
    /\ hist' = [hist EXCEPT !.reclosed = @ \cup Reclosed({panel[u].currentAuction})]
    /\ UNCHANGED <<players, teams, txVars, cache, stale>>

(* onUpdate(): AdminDashboard.fetchData re-reads players and teams *)
Refresh(u) ==
    /\ stale[u]
    /\ UNCHANGED adminVars
    /\ cache' = [cache EXCEPT ![u] = fetchData(u)]
    /\ stale' = [stale EXCEPT ![u] = FALSE]
    /\ UNCHANGED <<dbVars, txVars, panel, toast, hist>>

(***************************************************************************)
(* Spec: the sell_player RPC called directly by two signed-in users for    *)
(* any player, team and price, naming the player's listing whether or not  *)
(* the admin's panel has opened or closed it.                              *)
(***************************************************************************)
Next ==
    \/ \E u \in Users, p \in Players, t \in Teams, price \in Prices :
          SellPlayerCall(u, p, t, p, price)
    \/ \E u \in Users : LockPlayer(u)
    \/ \E u \in Users : LockTeam(u)
    \/ \E u \in Users : Commit(u)
    \/ \E p \in Players : startAuction(Admin, p)
    \/ unsoldPlayer(Admin)

Spec == Init /\ [][Next]_vars

(***************************************************************************)
(* Properties of sell_player under Spec.                                   *)
(***************************************************************************)

(* the step in which user u's call returns *)
Returns(u) == pc[u] # "idle" /\ pc'[u] = "idle"
Commits(u) == Returns(u) /\ result'[u] = "ok"
Fails(u) == Returns(u) /\ result'[u] # "ok"

(* C5: a sell_player call that fails leaves every player, team and listing *)
(* as it was; a call whose price exceeds the purse read under the team     *)
(* lock fails with InsufficientPurse.                                      *)
C5_FailedCallChangesNothing ==
    [][\A u \in Users :
          /\ Fails(u) => UNCHANGED dbVars
          /\ (/\ pc[u] = "lockTeam"
              /\ pc'[u] # "lockTeam"
              /\ teams[args[u].t_id].purse_remaining < args[u].sell_price)
             => Fails(u) /\ result'[u] = "InsufficientPurse"]_vars

C5_Witness ==
    \E u \in Users, t \in Teams :
        /\ result[u] = "InsufficientPurse"
        /\ pc[u] = "idle"
        /\ teams[t].purse_remaining > 0
        /\ teams[t].purse_remaining < MaxPrice

(* C7: a settlement whose team or player belongs to another auction event  *)
(* than the listing never commits.                                         *)
C7_CrossTenantNeverCommits ==
    [][\A u \in Users :
          (Commits(u) /\ auctions[args[u].a_id].present) =>
             /\ auctions[args[u].a_id].auction_event_id
                   = teams[args[u].t_id].auction_event_id
             /\ auctions[args[u].a_id].auction_event_id
                   = players[args[u].p_id].auction_event_id]_vars

(* C8 (the part that is a safety property): whatever a user does changes   *)
(* only rows of the user's own auction event.                              *)
C8_WritesStayInOwnEvent ==
    [][\A u \in Users :
          Returns(u) =>
             /\ \A t \in Teams :
                   teams[t].auction_event_id # UserEvent[u] => teams'[t] = teams[t]
             /\ \A p \in Players :
                   players[p].auction_event_id # UserEvent[u] => players'[p] = players[p]]_vars

(* C9: sell_player on a listing that is no longer active (sold, closed    *)
(* unsold) never commits.                                                  *)
C9_InactiveListingNeverSold ==
    [][\A u \in Users :
          (Commits(u) /\ auctions[args[u].a_id].present)
             => auctions[args[u].a_id].is_active]_vars

(* C10: sell_player with a price below the listing's stored bid never      *)
(* commits.                                                                *)
C10_PriceBelowBidNeverSold ==
    [][\A u \in Users :
          (Commits(u) /\ auctions[args[u].a_id].present)
             => args[u].sell_price >= auctions[args[u].a_id].current_price]_vars

(***************************************************************************)
(* SpecPanel: two admins of the same auction event run their auction       *)
(* panels; every sale goes through soldPlayer.                             *)
(***************************************************************************)
BidSteps == {1}

NextPanel ==
    \/ \E u \in Users, p \in Players : startAuction(u, p)
    \/ \E u \in Users, amount \in BidSteps : updateBid(u, amount)
    \/ \E u \in Users, t \in Teams : selectTeam(u, t)
    \/ \E u \in Users : soldPlayer(u)
    \/ \E u \in Users : unsoldPlayer(u)
    \/ \E u \in Users : Refresh(u)
    \/ \E u \in Users : LockPlayer(u)
    \/ \E u \in Users : LockTeam(u)
    \/ \E u \in Users : Commit(u)

SpecPanel == Init /\ [][NextPanel]_vars

(* C2: sell_player never commits a price above the purse that the team row *)
(* holds when the call has it locked, whatever the caller's props showed;  *)
(* so sales alone never drive a purse below zero.                          *)
C2_NoOverspend ==
    /\ [][\A u \in Users :
             Commits(u) => teams[args[u].t_id].purse_remaining >= args[u].sell_price]_vars
    /\ [](\A t \in Teams : teams[t].purse_remaining >= 0)

(* two panels sold different players to one team whose purse covered one:  *)
(* the second call passed the panel's check on its props, waited for the   *)
(* team row and failed                                                     *)
C2_Witness ==
    \E u \in Users, v \in Users :
        /\ u # v
        /\ result[u] = "ok"
        /\ result[v] = "InsufficientPurse" /\ origin[v] = "panel" /\ v \in hist.waited
        /\ panel[v].currentAuction # NULL /\ panel[v].selectedTeamId # NULL
        /\ cache[v].purse[panel[v].selectedTeamId] >= panel[v].currentBid
        /\ teams[panel[v].selectedTeamId].purse_remaining < panel[v].currentBid
        /\ players[panel[v].currentAuction].is_sold = FALSE

(***************************************************************************)
(* EditTeamModal: the admin's team editor.  The modal holds the team row   *)
(* it was opened with (its `team` prop) and writes the tables statement by *)
(* statement, each statement its own transaction.  A statement on a row    *)
(* that a sell_player transaction has locked waits for that transaction.   *)
(***************************************************************************)
EditValues == 0..MaxPrice

(* setEditingTeam(team): the modal opens on a team the admin can read *)
openModal(t) ==
    /\ modal.op = "closed"
    /\ hist.ops < MaxAdminOps
    /\ t \in VisibleTeams(Admin)
    /\ modal' = [ClosedModal EXCEPT !.op = "open", !.team = t,
                                    !.purse = teams[t].purse_remaining,
                                    !.count = teams[t].players_count]
    /\ hist' = [hist EXCEPT !.ops = @ + 1]
    /\ UNCHANGED <<dbVars, txVars, uiVars, legacyVars>>

(* the details form: purse_remaining and total_purse are free number inputs *)
handleSubmit(purse, total) ==
    /\ modal.op = "open"
    /\ tlock[modal.team] = NULL
    /\ teams' = [teams EXCEPT ![modal.team].purse_remaining = purse,
                              ![modal.team].total_purse = total]
    /\ modal' = ClosedModal
    /\ UNCHANGED <<players, auctions, txVars, uiVars, legacyVars, hist>>

(* resetPurse, first statement: UPDATE teams *)
resetPurseTeam ==
    /\ modal.op = "open"
    /\ tlock[modal.team] = NULL
    /\ teams' = [teams EXCEPT ![modal.team].purse_remaining = DefaultPurse,
                              ![modal.team].total_purse = DefaultPurse,
                              ![modal.team].players_count = 0]
    /\ modal' = [modal EXCEPT !.op = "reset"]
    /\ UNCHANGED <<players, auctions, txVars, uiVars, legacyVars, hist>>

(* resetPurse, second statement: UPDATE players ... WHERE team_id = team *)
resetPursePlayers ==
    /\ modal.op = "reset"
    /\ \A p \in Players : players[p].team_id = modal.team => plock[p] = NULL
    /\ players' = [p \in Players |->
                      IF players[p].team_id = modal.team
                      THEN [players[p] EXCEPT !.is_sold = FALSE, !.team_id = NULL,
                                              !.current_price = NullPrice]
                      ELSE players[p]]
    /\ modal' = ClosedModal
    /\ UNCHANGED <<teams, auctions, txVars, uiVars, legacyVars, hist>>

(* addPlayerToTeam, first statement: UPDATE players *)
addPlayerToTeamPlayer(p) ==
    /\ modal.op = "open"
    /\ p \in VisiblePlayers(Admin)
    /\ ~players[p].is_sold
    /\ modal.purse >= players[p].base_price
    /\ plock[p] = NULL
    /\ players' = [players EXCEPT ![p].is_sold = TRUE, ![p].team_id = modal.team,
                                  ![p].current_price = players[p].base_price]
    /\ modal' = [modal EXCEPT !.op = "add", !.player = p, !.price = players[p].base_price]
    /\ UNCHANGED <<teams, auctions, txVars, uiVars, legacyVars, hist>>

(* addPlayerToTeam, second statement: UPDATE teams from the team prop *)
addPlayerToTeamTeam ==
    /\ modal.op = "add"
    /\ tlock[modal.team] = NULL
    /\ teams' = [teams EXCEPT ![modal.team].purse_remaining = modal.purse - modal.price,
                              ![modal.team].players_count = modal.count + 1]
    /\ modal' = ClosedModal
    /\ UNCHANGED <<players, auctions, txVars, uiVars, legacyVars, hist>>

(* removePlayerFromTeam, first statement: UPDATE players *)
removePlayerFromTeamPlayer(p) ==
    /\ modal.op = "open"
    /\ players[p].is_sold /\ players[p].team_id = modal.team
    /\ plock[p] = NULL
    /\ players' = [players EXCEPT ![p].is_sold = FALSE, ![p].team_id = NULL,
                                  ![p].current_price = NullPrice]
    /\ modal' = [modal EXCEPT !.op = "remove", !.player = p,
                              !.price = IF players[p].current_price > 0
                                        THEN players[p].current_price
                                        ELSE players[p].base_price]
    /\ UNCHANGED <<teams, auctions, txVars, uiVars, legacyVars, hist>>

(* removePlayerFromTeam, second statement: UPDATE teams from the team prop *)
removePlayerFromTeamTeam ==
    /\ modal.op = "remove"
    /\ tlock[modal.team] = NULL
    /\ teams' = [teams EXCEPT ![modal.team].purse_remaining = modal.purse + modal.price,
                              ![modal.team].players_count = Max(0, modal.count - 1)]
    /\ modal' = ClosedModal
    /\ UNCHANGED <<players, auctions, txVars, uiVars, legacyVars, hist>>

(***************************************************************************)
(* SpecLedger: sales through sell_player, by the listing of the player     *)
(* sold, while an admin edits a team in the EditTeamModal.                 *)
(***************************************************************************)
NextLedger ==
    \/ \E u \in Users, p \in Players, t \in Teams, price \in Prices :
          SellPlayerCall(u, p, t, p, price)
    \/ \E u \in Users : LockPlayer(u)
    \/ \E u \in Users : LockTeam(u)
    \/ \E u \in Users : Commit(u)
    \/ \E p \in Players : startAuction(Admin, p)
    \/ \E t \in Teams : openModal(t)
    \/ \E purse \in EditValues : handleSubmit(purse, DefaultPurse)
    \/ resetPurseTeam
    \/ resetPursePlayers
    \/ \E p \in Players : addPlayerToTeamPlayer(p)
    \/ addPlayerToTeamTeam
    \/ \E p \in Players : removePlayerFromTeamPlayer(p)
    \/ removePlayerFromTeamTeam

SpecLedger == Init /\ [][NextLedger]_vars

RECURSIVE SumOver(_, _)
SumOver(S, f) ==
    IF S = {} THEN 0
    ELSE LET x == CHOOSE y \in S : TRUE IN f[x] + SumOver(S \ {x}, f)

Spent(e) ==
    SumOver({t \in Teams : teams[t].auction_event_id = e},
            [t \in Teams |-> teams[t].total_purse - teams[t].purse_remaining])

Paid(e) ==
    SumOver({p \in Players : players[p].auction_event_id = e /\ players[p].is_sold},
            [p \in Players |-> players[p].current_price])

(* C1: for every player at most one sell_player call ever succeeds.        *)
C1_AtMostOneSalePerPlayer == \A p \in Players : hist.sales[p] <= 1

(* C3: in every committed state and every auction event, what the event's  *)
(* teams have spent equals what its sold players cost.                     *)
C3_Conservation == \A e \in Events : Spent(e) = Paid(e)

(***************************************************************************)
(* The dashboard that keeps the live auction in the current_auction table  *)
(* and sells with three separate UPDATE statements, each committed on its  *)
(* own, computed from the teams state the dashboard last fetched.          *)
(***************************************************************************)
ResetLegacy(props) ==
    [step |-> "idle", currentAuctionPlayer |-> NULL, currentBid |-> 0,
     selectedTeamId |-> NULL, props |-> props]

(* upsert of the fixed-id row *)
legacyStartAuction(p) ==
    /\ legacy.step = "idle"
    /\ legacy.currentAuctionPlayer = NULL
    /\ ~legacy.props.sold[p]
    /\ current_auction' = [player_id |-> p, current_price |-> players[p].base_price,
                           is_active |-> TRUE]
    /\ legacy' = [legacy EXCEPT !.currentAuctionPlayer = p,
                                !.currentBid = players[p].base_price,
                                !.selectedTeamId = NULL]
    /\ hist' = [hist EXCEPT !.maxAttempt = players[p].base_price]
    /\ UNCHANGED <<dbVars, txVars, uiVars, modal, session2>>

(* setCurrentBid, then UPDATE current_auction ... WHERE is_active *)
legacyUpdateBid(amount) ==
    /\ legacy.step = "idle"
    /\ legacy.currentAuctionPlayer # NULL
    /\ legacy.currentBid + amount <= MaxPrice
    /\ LET newBid == Max(legacy.currentBid + amount,
                         players[legacy.currentAuctionPlayer].base_price)
       IN /\ legacy' = [legacy EXCEPT !.currentBid = newBid]
          /\ current_auction' = IF current_auction.is_active
                                THEN [current_auction EXCEPT !.current_price = newBid]
                                ELSE current_auction
          /\ hist' = [hist EXCEPT !.maxAttempt = Max(@, newBid)]
    /\ UNCHANGED <<dbVars, txVars, uiVars, modal, session2>>

legacySelectTeam(t) ==
    /\ legacy.step = "idle"
    /\ legacy.currentAuctionPlayer # NULL
    /\ legacy.selectedTeamId # t
    /\ legacy' = [legacy EXCEPT !.selectedTeamId = t]
    /\ UNCHANGED <<dbVars, txVars, uiVars, modal, current_auction, session2,
                   hist>>

(* soldPlayer, first statement: UPDATE players *)
legacySoldPlayerPlayer ==
    /\ legacy.step = "idle"
    /\ legacy.currentAuctionPlayer # NULL
    /\ legacy.selectedTeamId # NULL
    /\ legacy.props.purse[legacy.selectedTeamId] >= legacy.currentBid
    /\ plock[legacy.currentAuctionPlayer] = NULL
    /\ players' = UpdatePlayer(legacy.currentAuctionPlayer, legacy.selectedTeamId,
                               legacy.currentBid)
    /\ legacy' = [legacy EXCEPT !.step = "team"]
    /\ UNCHANGED <<teams, auctions, txVars, uiVars, modal, current_auction, session2,
                   hist>>

(* soldPlayer, second statement: UPDATE teams from the fetched team *)
legacySoldPlayerTeam ==
    /\ legacy.step = "team"
    /\ tlock[legacy.selectedTeamId] = NULL
    /\ teams' = [teams EXCEPT
                   ![legacy.selectedTeamId].purse_remaining =
                       legacy.props.purse[legacy.selectedTeamId] - legacy.currentBid,
                   ![legacy.selectedTeamId].players_count =
                       legacy.props.count[legacy.selectedTeamId] + 1]
    /\ legacy' = [legacy EXCEPT !.step = "end"]
    /\ UNCHANGED <<players, auctions, txVars, uiVars, modal, current_auction, session2,
                   hist>>

(* soldPlayer, third statement: end the auction; resetAuction(); fetchData() *)
legacySoldPlayerEnd ==
    /\ legacy.step = "end"
    /\ current_auction' = [current_auction EXCEPT !.is_active = FALSE]
    /\ legacy' = ResetLegacy(legacyFetchData)
    /\ UNCHANGED <<dbVars, txVars, uiVars, modal, session2, hist>>

(* an unsoldPlayer that also writes the last bid into the player row *)
legacyUnsoldPlayerMarkingPlayer ==
    /\ legacy.step = "idle"
    /\ legacy.currentAuctionPlayer # NULL
    /\ current_auction' = [current_auction EXCEPT !.is_active = FALSE]
    /\ players' = [players EXCEPT
                     ![legacy.currentAuctionPlayer].current_price = legacy.currentBid]
    /\ legacy' = ResetLegacy(legacy.props)
    /\ UNCHANGED <<teams, auctions, txVars, uiVars, modal, session2, hist>>

legacyUnsoldPlayer ==
    /\ legacy.step = "idle"
    /\ legacy.currentAuctionPlayer # NULL
    /\ current_auction' = [current_auction EXCEPT !.is_active = FALSE]
    /\ legacy' = ResetLegacy(legacy.props)
    /\ UNCHANGED <<dbVars, txVars, uiVars, modal, session2, hist>>

(* the second session mounts: fetchCurrentAuction reads the active row *)
session2FetchCurrentAuction ==
    /\ session2' = IF current_auction.is_active
                   THEN [currentAuctionPlayer |-> current_auction.player_id,
                         currentBid |-> current_auction.current_price]
                   ELSE [currentAuctionPlayer |-> NULL, currentBid |-> 0]
    /\ UNCHANGED <<dbVars, txVars, uiVars, modal, current_auction, legacy, hist>>

(* updateBid in the second session *)
session2UpdateBid(amount) ==
    /\ session2.currentAuctionPlayer # NULL
    /\ session2.currentBid + amount <= MaxPrice
    /\ LET newBid == Max(session2.currentBid + amount,
                         players[session2.currentAuctionPlayer].base_price)
       IN /\ session2' = [session2 EXCEPT !.currentBid = newBid]
          /\ current_auction' = IF current_auction.is_active
                                THEN [current_auction EXCEPT !.current_price = newBid]
                                ELSE current_auction
          /\ hist' = [hist EXCEPT !.maxAttempt = Max(@, newBid)]
    /\ UNCHANGED <<dbVars, txVars, uiVars, modal, legacy>>

NextLegacy ==
    \/ \E p \in Players : legacyStartAuction(p)
    \/ \E amount \in BidSteps : legacyUpdateBid(amount)
    \/ \E t \in Teams : legacySelectTeam(t)
    \/ legacySoldPlayerPlayer
    \/ legacySoldPlayerTeam
    \/ legacySoldPlayerEnd
    \/ legacyUnsoldPlayer

SpecLegacy == Init /\ [][NextLegacy]_vars

Roster(t) == {p \in Players : players[p].is_sold /\ players[p].team_id = t}

(* C6: no reader ever sees a sale half done: a sold player is counted and  *)
(* paid for by its team, and is no longer under the hammer.                *)
C6_NoPartialSettlement ==
    /\ \A t \in Teams :
          /\ teams[t].players_count = Cardinality(Roster(t))
          /\ teams[t].total_purse - teams[t].purse_remaining
                = SumOver(Roster(t), [p \in Players |-> players[p].current_price])
    /\ \A p \in Players :
          players[p].is_sold =>
             ~(current_auction.is_active /\ current_auction.player_id = p)

(* C4: a committed sell_player(p, t, a, price) sets exactly: player p sold *)
(* to t at price; team t's purse down by price and its count up by one;    *)
(* listing a inactive, won by t at price; nothing else changes.            *)
C4_CommitEffect ==
    [][\A u \in Users :
          Commits(u) =>
             LET p == args[u].p_id
                 t == args[u].t_id
                 a == args[u].a_id
                 price == args[u].sell_price
             IN /\ players'[p] = [players[p] EXCEPT !.is_sold = TRUE, !.team_id = t,
                                                    !.current_price = price]
                /\ teams'[t] = [teams[t] EXCEPT !.purse_remaining = @ - price,
                                                !.players_count = @ + 1]
                /\ auctions'[a].present
                /\ auctions'[a] = [auctions[a] EXCEPT !.is_active = FALSE,
                                                      !.winning_team_id = t,
                                                      !.current_price = price]
                /\ \A q \in Players \ {p} : players'[q] = players[q]
                /\ \A x \in Teams \ {t} : teams'[x] = teams[x]
                /\ \A b \in Players \ {a} : auctions'[b] = auctions[b]]_vars

(***************************************************************************)
(* Listings.                                                               *)
(***************************************************************************)
ActiveListing(p) == auctions[p].present /\ auctions[p].is_active

(* C11: a player never has a second active listing: while a player's       *)
(* listing is active no step opens the player again, for no admin, and the *)
(* listing row stays as it is until it is closed; the attempt fails.       *)
C11_OneActiveListingPerPlayer ==
    [][\A p \in Players :
          ActiveListing(p) =>
             /\ auctions'[p] = auctions[p] \/ ~auctions'[p].is_active
             /\ \A u \in Users :
                   /\ panel'[u].currentAuction = p => panel[u].currentAuction = p
                   /\ toast'[u] = "Auction LIVE" => toast[u] = "Auction LIVE"
                                                    \/ panel'[u].currentAuction # p]_vars

(* two admins opened the same player: one runs the auction, the other was  *)
(* refused                                                                 *)
C11_Witness ==
    \E u \in Users, v \in Users, p \in Players :
        /\ u # v
        /\ ActiveListing(p) /\ panel[u].currentAuction = p
        /\ toast[v] = "Auction failed" /\ panel[v].currentAuction = NULL
        /\ \A q \in Players \ {p} : ~auctions[q].present

(* C12: single lane: every auction event has at most one active listing.   *)
C12_SingleLane ==
    \A e \in Events :
        Cardinality({p \in Players : ActiveListing(p) /\ auctions[p].auction_event_id = e}) <= 1

(* C13: no listing is ever created for a player whose is_sold is true in   *)
(* the players table, whatever the caller's props show.                    *)
C13_NoListingForSoldPlayer ==
    [][\A p \in Players :
          (~auctions[p].present /\ auctions'[p].present) => ~players[p].is_sold]_vars

(***************************************************************************)
(* SpecShared: two sessions of the dashboard that keeps the bid in the     *)
(* current_auction row, both raising the bid of the live auction.          *)
(***************************************************************************)
NextShared ==
    \/ \E p \in Players : legacyStartAuction(p)
    \/ \E amount \in BidSteps : legacyUpdateBid(amount)
    \/ \E t \in Teams : legacySelectTeam(t)
    \/ legacySoldPlayerPlayer
    \/ legacySoldPlayerTeam
    \/ legacySoldPlayerEnd
    \/ legacyUnsoldPlayer
    \/ session2FetchCurrentAuction
    \/ \E amount \in BidSteps : session2UpdateBid(amount)

SpecShared == Init /\ [][NextShared]_vars

(* C14: no step lowers the stored bid of the live auction.                 *)
C14_BidNeverDecreases ==
    [][(/\ current_auction.is_active
        /\ current_auction'.is_active
        /\ current_auction'.player_id = current_auction.player_id)
       => current_auction'.current_price >= current_auction.current_price]_vars

(* C15: once the raise requests are done, the stored bid of the live       *)
(* auction is the highest amount any of them attempted.                    *)
C15_StoredBidIsMaxAttempted ==
    current_auction.is_active => current_auction.current_price = hist.maxAttempt

(* the step in which user u's panel closes its listing without a sale *)
ClosesUnsold(u) ==
    /\ panel[u].currentAuction # NULL
    /\ panel'[u].currentAuction = NULL
    /\ toast'[u] = "went unsold"

NextClose ==
    \/ \E p \in Players : startAuction(Admin, p)
    \/ unsoldPlayer(Admin)
    \/ \E p \in Players : legacyStartAuction(p)
    \/ \E amount \in BidSteps : legacyUpdateBid(amount)
    \/ \E t \in Teams : legacySelectTeam(t)
    \/ legacySoldPlayerPlayer
    \/ legacySoldPlayerTeam
    \/ legacySoldPlayerEnd
    \/ legacyUnsoldPlayer

SpecClose == Init /\ [][NextClose]_vars

(* the step in which the dashboard closes the live auction without a sale *)
LegacyClosesUnsold ==
    /\ legacy.step = "idle" /\ legacy'.step = "idle"
    /\ legacy.currentAuctionPlayer # NULL
    /\ legacy'.currentAuctionPlayer = NULL

(* C17: closing a listing without a sale sets that listing's active flag   *)
(* to false and changes nothing else: no player, no team, no other listing.*)
C17_UnsoldFrame ==
    [][/\ \A u \in Users :
             ClosesUnsold(u) =>
                /\ players' = players /\ teams' = teams
                /\ auctions' = [auctions EXCEPT ![panel[u].currentAuction].is_active = FALSE]
                /\ current_auction' = current_auction
       /\ LegacyClosesUnsold =>
                /\ players' = players /\ teams' = teams /\ auctions' = auctions
                /\ current_auction' = [current_auction EXCEPT !.is_active = FALSE]]_vars

(* both closings happened while a sold player and a charged team existed  *)
C17_Witness ==
    \E p \in Players, q \in Players, t \in Teams :
        /\ toast[Admin] = "went unsold"
        /\ auctions[p].present /\ ~auctions[p].is_active /\ auctions[p].winning_team_id = NULL
        /\ ~players[p].is_sold
        /\ players[q].is_sold /\ players[q].team_id = t /\ teams[t].players_count = 1
        /\ current_auction.player_id = p /\ ~current_auction.is_active
        /\ legacy.step = "idle" /\ legacy.currentAuctionPlayer = NULL

(***************************************************************************)
(* SpecReset: sales through sell_player while the admin resets a team.     *)
(***************************************************************************)
NextReset ==
    \/ \E u \in Users, p \in Players, t \in Teams, price \in Prices :
          SellPlayerCall(u, p, t, p, price)
    \/ \E u \in Users : LockPlayer(u)
    \/ \E u \in Users : LockTeam(u)
    \/ \E u \in Users : Commit(u)
    \/ \E t \in Teams : openModal(t)
    \/ resetPurseTeam
    \/ resetPursePlayers

SpecReset == Init /\ [][NextReset]_vars

(* what every serial order of sales and resets preserves: a team counts    *)
(* and has paid for exactly the players it owns                            *)
TeamMatchesRoster(t) ==
    /\ teams[t].players_count = Cardinality(Roster(t))
    /\ teams[t].total_purse - teams[t].purse_remaining
          = SumOver(Roster(t), [p \in Players |-> players[p].current_price])

(* C18: once a reset and the sales running beside it are done, the state   *)
(* is one that some serial order of them produces.                         *)
C18_ResetSerializable ==
    (modal.op = "closed" /\ \A u \in Users : pc[u] = "idle")
       => \A t \in Teams : TeamMatchesRoster(t)

(* C19: every team has 0 <= purse_remaining <= total_purse and a player    *)
(* count that is not negative.                                             *)
C19_TeamInvariant ==
    \A t \in Teams :
        /\ 0 <= teams[t].purse_remaining
        /\ teams[t].purse_remaining <= teams[t].total_purse
        /\ teams[t].players_count >= 0

(***************************************************************************)
(* EditPlayerModal: the admin's player editor; base_price is a free number *)
(* input and the form is saved with one UPDATE of the player row; the      *)
(* card that opened the modal then calls onUpdate().                       *)
(***************************************************************************)
editPlayerSubmit(p, base) ==
    /\ hist.ops < MaxAdminOps
    /\ p \in VisiblePlayers(Admin)
    /\ plock[p] = NULL
    /\ players[p].base_price # base
    /\ players' = [players EXCEPT ![p].base_price = base]
    /\ hist' = [hist EXCEPT !.ops = @ + 1]
    /\ stale' = [stale EXCEPT ![Admin] = TRUE]
    /\ UNCHANGED <<teams, auctions, txVars, cache, panel, toast, adminVars>>

(***************************************************************************)
(* SpecPlayers: sales through sell_player, player edits, team resets and   *)
(* returns to the pool.                                                    *)
(***************************************************************************)
NextPlayers ==
    \/ \E p \in Players, t \in Teams, price \in Prices :
          SellPlayerCall(Admin, p, t, p, price)
    \/ LockPlayer(Admin)
    \/ LockTeam(Admin)
    \/ Commit(Admin)
    \/ \E p \in Players, base \in Prices : editPlayerSubmit(p, base)
    \/ \E t \in Teams : openModal(t)
    \/ resetPurseTeam
    \/ resetPursePlayers
    \/ \E p \in Players : removePlayerFromTeamPlayer(p)
    \/ removePlayerFromTeamTeam

SpecPlayers == Init /\ [][NextPlayers]_vars

(* C20: a player is sold exactly when its team and its price are both set, *)
(* and a sold player's price is at least its base price.                   *)
C20_PlayerInvariant ==
    \A p \in Players :
        /\ players[p].is_sold <=>
              (players[p].team_id # NULL /\ players[p].current_price # NullPrice)
        /\ players[p].is_sold => players[p].current_price >= players[p].base_price

(***************************************************************************)
(* Listings and the players they are for.                                  *)
(***************************************************************************)

(* C21: an active listing is for an unsold player and has no winning team; *)
(* a winning team is recorded only on an inactive listing.                 *)
C21_ListingInvariant ==
    \A p \in Players :
        /\ ActiveListing(p) =>
              ~players[p].is_sold /\ auctions[p].winning_team_id = NULL
        /\ (auctions[p].present /\ auctions[p].winning_team_id # NULL)
              => ~auctions[p].is_active

(* C22: only a committing sell_player turns a player from unsold to sold   *)
(* or lowers a team's purse; no other step does either.                    *)
C22_OnlySettlementSells ==
    [][(\/ \E p \in Players : ~players[p].is_sold /\ players'[p].is_sold
        \/ \E t \in Teams : teams'[t].purse_remaining < teams[t].purse_remaining)
       => \E u \in Users : Commits(u)]_vars

(***************************************************************************)
(* SpecNotFound: the sell_player RPC called with ids that may match no     *)
(* row: NoPlayer is a uuid that is no players.id and names no listing,     *)
(* NoTeam a uuid that is no teams.id.                                      *)
(***************************************************************************)
NoPlayer == "PX"
NoTeam == "TX"

NextNotFound ==
    \/ \E p \in Players \cup {NoPlayer}, t \in Teams \cup {NoTeam},
          a \in Players \cup {NoPlayer}, price \in Prices :
          SellPlayerCall(Admin, p, t, a, price)
    \/ LockPlayer(Admin)
    \/ LockTeam(Admin)
    \/ Commit(Admin)
    \/ \E p \in Players : startAuction(Admin, p)

SpecNotFound == Init /\ [][NextNotFound]_vars

(* the ids of user u's running call that match no row *)
MissingRow(u) ==
    \/ args[u].p_id \notin Players
    \/ args[u].t_id \notin Teams
    \/ ~(args[u].a_id \in Players /\ auctions[args[u].a_id].present)

(* C23: a sell_player call naming a player, team or listing id that        *)
(* matches no row returns NotFound and changes no row.                     *)
C23_MissingIdFails ==
    [][\A u \in Users :
          (Returns(u) /\ MissingRow(u))
             => result'[u] = "NotFound" /\ UNCHANGED dbVars]_vars

(***************************************************************************)
(* SpecFair: concurrent sell_player calls and nothing else.  A call that   *)
(* is not waiting for a row lock runs on (weak fairness); a call waiting   *)
(* for a row is queued on the lock and gets the row after the holders      *)
(* before it have ended their transactions (strong fairness).              *)
(***************************************************************************)
NextCalls ==
    \/ \E u \in Users, p \in Players, t \in Teams, price \in Prices :
          SellPlayerCall(u, p, t, p, price)
    \/ \E u \in Users : LockPlayer(u)
    \/ \E u \in Users : LockTeam(u)
    \/ \E u \in Users : Commit(u)

SpecFair ==
    /\ Init
    /\ [][NextCalls]_vars
    /\ \A u \in Users :
          /\ SF_vars(LockPlayer(u))
          /\ SF_vars(LockTeam(u))
          /\ WF_vars(Commit(u))

(* user u's call waits for a row lock another transaction holds *)
Blocked(u) ==
    \/ pc[u] = "lockPlayer" /\ plock[args[u].p_id] # NULL
    \/ pc[u] = "lockTeam" /\ tlock[args[u].t_id] # NULL

Running == {u \in Users : pc[u] # "idle"}

Outcomes == {"ok", "AlreadySold", "InsufficientPurse", "ForeignKeyViolation"}

(* C24: concurrent sell_player calls never deadlock (while calls are       *)
(* running, one of them is not waiting for a lock), and every call         *)
(* eventually returns, with success or with an error.                      *)
C24_CallsTerminate ==
    /\ [](Running # {} => \E u \in Running : ~Blocked(u))
    /\ \A u \in Users :
          (pc[u] # "idle") ~> (pc[u] = "idle" /\ result[u] \in Outcomes)

(* a call that had to wait for a row lock has returned with success after  *)
(* the call it waited for returned with success                            *)
C24_Witness ==
    \E u \in Users, v \in Users :
        /\ u # v
        /\ u \in hist.waited
        /\ pc[u] = "idle" /\ result[u] = "ok"
        /\ pc[v] = "idle" /\ result[v] = "ok"

(***************************************************************************)
(* Change notifications and refresh callbacks.                             *)
(***************************************************************************)

(* C25: a change of a players row is sent to the subscribed dashboards     *)
(* only in the step that commits it; a sell_player call that fails sends   *)
(* nothing, and its panel neither reports a sale nor calls onUpdate().     *)
C25_NotifyAfterCommit ==
    [][/\ hist'.notified # hist.notified =>
             \E u \in Users :
                /\ Commits(u)
                /\ hist'.notified = hist.notified \cup {args[u].t_id}
                /\ players'[args[u].p_id].is_sold
                /\ players'[args[u].p_id].team_id = args[u].t_id
       /\ \A u \in Users :
             /\ Fails(u) =>
                   /\ hist'.notified = hist.notified
                   /\ stale'[u] = stale[u]
                   /\ toast'[u] # "sold"
             /\ (stale'[u] /\ ~stale[u]) => Commits(u)]_vars

(* one panel's sale committed and was sent to the buying team, the other   *)
(* panel's sale failed and scheduled no refresh                            *)
C25_Witness ==
    \E u \in Users, v \in Users :
        /\ u # v
        /\ result[u] = "ok" /\ origin[u] = "panel" /\ stale[u]
        /\ hist.notified # {}
        /\ result[v] # "ok" /\ result[v] # "none" /\ origin[v] = "panel"
        /\ pc[v] = "idle" /\ ~stale[v] /\ toast[v] = "Transaction failed"

(***************************************************************************)
(* SpecListing: two admins open and close listings from their auction      *)
(* panels while one of them edits base prices in the player editor.        *)
(***************************************************************************)
NextListing ==
    \/ \E u \in Users, p \in Players : startAuction(u, p)
    \/ \E u \in Users, amount \in BidSteps : updateBid(u, amount)
    \/ \E u \in Users : unsoldPlayer(u)
    \/ \E p \in Players, base \in Prices : editPlayerSubmit(p, base)
    \/ \E u \in Users : Refresh(u)

SpecListing == Init /\ [][NextListing]_vars

(* the step in which user u's startAuction creates the listing of p *)
Opens(u, p) ==
    /\ ~auctions[p].present /\ auctions'[p].present
    /\ panel[u].currentAuction = NULL /\ panel'[u].currentAuction = p

C27_OneAuctionRowPerPlayer ==
    [][/\ \A p \in Players :
             auctions[p].present =>
                /\ auctions'[p].present
                /\ auctions'[p].is_active => auctions'[p] = auctions[p]
                /\ \A u \in Users :
                      panel'[u].currentAuction = p => panel[u].currentAuction = p
       /\ \A u \in Users :
             (toast'[u] = "Auction failed" /\ toast[u] # "Auction failed") =>
                /\ auctions' = auctions
                /\ panel'[u] = panel[u]
                /\ panel'[u].currentAuction = NULL]_vars

(* an admin opened a player, closed the listing unsold and was refused     *)
(* when opening the same player again                                      *)
C27_Witness ==
    \E u \in Users, v \in Users, p \in Players :
        /\ u # v
        /\ toast[v] = "none" /\ panel[v].currentAuction = NULL
        /\ toast[u] = "Auction failed" /\ panel[u].currentAuction = NULL
        /\ auctions[p].present /\ ~auctions[p].is_active
        /\ auctions[p].winning_team_id = NULL
        /\ \A q \in Players \ {p} : ~auctions[q].present

(* C28: in every committed state each team's players_count is the number   *)
(* of sold players whose team_id is that team.                             *)
C28_CountMatchesRoster ==
    \A t \in Teams : teams[t].players_count = Cardinality(Roster(t))

(***************************************************************************)
(* Requests that fail.  A supabase-js query does not throw when the        *)
(* request fails (the connection drops, the server answers with an error): *)
(* it resolves to a result whose `error` is set.  startAuction and         *)
(* soldPlayer test `error` and throw into their catch block, which shows a *)
(* toast and changes nothing else.  unsoldPlayer awaits the update and     *)
(* never looks at the result, so its catch block is not reached.           *)
(***************************************************************************)

(* unsoldPlayer when the UPDATE request comes back with an error *)
unsoldPlayerRequestFailed(u) ==
    /\ pc[u] = "idle"
    /\ UNCHANGED adminVars
    /\ panel[u].currentAuction # NULL
    /\ panel' = [panel EXCEPT ![u] = IdlePanel]
    /\ toast' = [toast EXCEPT ![u] = "went unsold"]
    /\ UNCHANGED <<dbVars, txVars, cache, stale, hist>>

(***************************************************************************)
(* SpecUnsold: the auction panels of two admins, with requests to close a  *)
(* listing that may fail.                                                  *)
(***************************************************************************)
NextUnsold ==
    \/ NextPanel
    \/ \E u \in Users : unsoldPlayerRequestFailed(u)

SpecUnsold == Init /\ [][NextUnsold]_vars

(* C29: when a panel returns to idle through unsoldPlayer, the listing it  *)
(* had open is inactive in the auctions table.                             *)
C29_IdleMeansClosed ==
    [][\A u \in Users :
          ClosesUnsold(u) => ~auctions'[panel[u].currentAuction].is_active]_vars

(***************************************************************************)
(* SpecBids: the admin's auction panel with updateBid called for any       *)
(* amount, upwards and downwards, not only the amounts of the panel's      *)
(* buttons, while base prices are edited in the player editor.             *)
(***************************************************************************)
BidAmounts == {0 - 1, 1}

NextBids ==
    \/ \E p \in Players : startAuction(Admin, p)
    \/ \E amount \in BidAmounts : updateBid(Admin, amount)
    \/ \E t \in Teams : selectTeam(Admin, t)
    \/ soldPlayer(Admin)
    \/ unsoldPlayer(Admin)
    \/ Refresh(Admin)
    \/ LockPlayer(Admin)
    \/ LockTeam(Admin)
    \/ Commit(Admin)
    \/ \E p \in Players, base \in Prices : editPlayerSubmit(p, base)

SpecBids == Init /\ [][NextBids]_vars

(* C30: while the panel has an auction in progress its current bid is at   *)
(* least the base price of its current player, and so is the price of a    *)
(* sell_player call the panel has made.                                    *)
C30_BidAtLeastBase ==
    \A u \in Users :
        /\ panel[u].currentAuction # NULL =>
              panel[u].currentBid >= panel[u].basePrice
        /\ (pc[u] # "idle" /\ origin[u] = "panel") =>
              args[u].sell_price >= panel[u].basePrice

(* the bid was raised, the sale was sent, and the bid was then taken down  *)
(* to the base price, where it stays                                       *)
C30_Witness ==
    \E u \in Users :
        /\ pc[u] # "idle" /\ origin[u] = "panel"
        /\ panel[u].currentAuction # NULL
        /\ args[u].sell_price > panel[u].currentBid
        /\ panel[u].currentBid = panel[u].basePrice

====
